---- MODULE Spec2Model ----
(***************************************************************************)
(* LinkBox API (backend/app): presigned-transfer credential issuer and     *)
(* object-metadata registry.                                               *)
(*                                                                         *)
(* Strings that the code builds or takes apart character by character      *)
(* (identifiers, filenames, storage keys, paths) are sequences of          *)
(* one-character strings.  An Optional value is a sequence of length 0     *)
(* (None) or 1.  The three HTTP handlers of main.py run as requests that   *)
(* interleave at the metadata store: the store is a PostgreSQL table       *)
(* shared by every worker process.                                         *)
(*                                                                         *)
(* A handler is cut into steps where it touches the table: what it does    *)
(* before the INSERT, the session_scope block, and what follows it.  The   *)
(* two GET handlers read the table once and are one step each.             *)
(*                                                                         *)
(* Environment: the signing calls of the storage client either return or   *)
(* raise ClientError; the commit of the INSERT succeeds, is refused by a   *)
(* key constraint, or fails for another reason; a SELECT is answered; the  *)
(* wall clock does not run backwards.                                      *)
(***************************************************************************)
EXTENDS Integers, Sequences, FiniteSets, TLC

VARIABLES
    store,     \* rows of table "files" (models.FileObject)
    clock,     \* wall clock, datetime.now(timezone.utc)
    pc,        \* per request: position in its handler
    op,        \* per request: the handler it runs
    req,       \* per request: the request's input
    reqTime,   \* per upload request: clock when it entered the handler
    loc,       \* per request: the handler's local variables
    calls,     \* per request: external calls made so far, in order
    sess,      \* per request: state of its database session
    seen,      \* per request: the requests already answered when it arrived
    resp,      \* per request: the HTTP response delivered to the caller
    cloudfront_download_domain,  \* Settings.cloudfront_download_domain
    probe      \* a call of a function on its own: arguments and result

vars == <<store, clock, pc, op, req, reqTime, loc, calls, sess, seen, resp,
          cloudfront_download_domain, probe>>

\* what no handler assigns
fixed == <<cloudfront_download_domain, probe>>

----------------------------------------------------------------------------
(* Bounds of the model *)

NumReqs == 3      \* requests in one run
MaxClock == 1     \* the clock runs over 0..MaxClock
NumIds == 2       \* distinct outcomes of the random source that are explored
MaxLen == 3       \* generate_short_id is called with lengths -MaxLen..MaxLen

Reqs == 1..NumReqs

----------------------------------------------------------------------------
(* Text *)

\* f"..." interpolation / str.join over a sequence of strings
RECURSIVE join(_)
join(parts) ==
    IF parts = <<>> THEN <<>> ELSE Head(parts) \o join(Tail(parts))

None == <<>>
Some(v) == <<v>>

----------------------------------------------------------------------------
(* utils/id.py *)

\* string.ascii_letters + string.digits
ALPHABET ==
    << "a","b","c","d","e","f","g","h","i","j","k","l","m",
       "n","o","p","q","r","s","t","u","v","w","x","y","z",
       "A","B","C","D","E","F","G","H","I","J","K","L","M",
       "N","O","P","Q","R","S","T","U","V","W","X","Y","Z",
       "0","1","2","3","4","5","6","7","8","9" >>

ValueError == <<"ValueError">>

\* secrets.choice(seq) with the random source yielding index i
secrets_choice(seq, i) == seq[i]

\* variant: range(length - 1)
generate_short_id_OneShort(length, rnd) ==
    IF length <= 0
    THEN ValueError
    ELSE [k \in 1..(length - 1) |-> secrets_choice(ALPHABET, rnd[k])]

\* variant: the guard is length < 0
generate_short_id_NegativeOnly(length, rnd) ==
    IF length < 0
    THEN ValueError
    ELSE [k \in 1..length |-> secrets_choice(ALPHABET, rnd[k])]

\* rnd[k] is what the random source yields for the k-th character
generate_short_id(length, rnd) ==
    IF length <= 0
    THEN ValueError
    ELSE [k \in 1..length |-> secrets_choice(ALPHABET, rnd[k])]

\* def generate_short_id(length: int = 6)
DefaultLength == 6
generate_short_id_default(rnd) == generate_short_id(DefaultLength, rnd)

\* how often secrets.choice is called by generate_short_id(length)
draws_made(length) == IF length <= 0 THEN 0 ELSE length

----------------------------------------------------------------------------
(* core/config.py: Settings defaults *)

s3_bucket_name == "linkbox-dev-bucket"
presigned_expiry_seconds == 3600
max_upload_bytes == 10 * 1024 * 1024

\* main.py: ExpiresIn of the download URL made right after an upload
UploadDownloadExpiry == 300
\* main.py: ExpiresIn of the on-demand download URL
OnDemandDownloadExpiry == 3600
\* main.py: generate_short_id(6)
IdLen == 6

----------------------------------------------------------------------------
(* Inputs explored *)

\* schemas.PresignRequest values
PresignRequests ==
    { [filename |-> <<"a",".","p","n","g">>, content_type |-> "image/png",
       size_bytes |-> Some(100)],
      [filename |-> <<"b","-","c">>, content_type |-> "text/plain",
       size_bytes |-> None] }

\* outcomes of the random source for one identifier: all but the last
\* character fixed, the last one of the first NumIds symbols
RndSamples ==
    { [k \in 1..IdLen |-> IF k = IdLen THEN j ELSE 1] : j \in 1..NumIds }

\* the file_id path parameter of the two GET routes
PathIds == { generate_short_id(IdLen, rnd) : rnd \in RndSamples }

----------------------------------------------------------------------------
(* models.py: table "files" *)

\* variant: default=datetime.now(timezone.utc), evaluated once at import
created_at_default_AtImport(now) == 0

\* Column(..., default=lambda: datetime.now(timezone.utc))
created_at_default(now) == now

FileObject(id, original_filename, s3_key, content_type, size_bytes, now) ==
    [id |-> id,
     original_filename |-> original_filename,
     s3_key |-> s3_key,
     content_type |-> content_type,
     size_bytes |-> size_bytes,
     created_at |-> created_at_default(now)]

\* variant: id is not declared a key, only s3_key is unique
IntegrityError_KeyOnly(table, record) ==
    \E r \in table : r.s3_key = record.s3_key

\* primary_key=True on id, unique=True on s3_key: the INSERT is refused
IntegrityError(table, record) ==
    \E r \in table : r.id = record.id \/ r.s3_key = record.s3_key

\* variant: the WHERE clause compares the wrong column
select_first_WrongColumn(table, file_id) ==
    LET rows == { r \in table : r.s3_key = file_id }
    IN  IF rows = {} THEN None ELSE Some(CHOOSE r \in rows : TRUE)

\* select(FileObject).where(FileObject.id == file_id) ... .scalars().first()
select_first(table, file_id) ==
    LET rows == { r \in table : r.id = file_id }
    IN  IF rows = {} THEN None ELSE Some(CHOOSE r \in rows : TRUE)

----------------------------------------------------------------------------
(* db.py *)

NoSession == [open |-> FALSE, txn |-> "none"]

\* variant: session.close() is not in a finally clause and is skipped
session_scope_NoClose(outcome) ==
    [open |-> TRUE,
     txn |-> IF outcome = "ok" THEN "committed" ELSE "rolledback"]

\* session_scope(): commit when the body ends without error, roll back and
\* re-raise otherwise, close in every case.  outcome is what commit() does.
session_scope(outcome) ==
    [open |-> FALSE,
     txn |-> IF outcome = "ok" THEN "committed" ELSE "rolledback"]

\* with SessionLocal() as session: closed on exit, nothing committed
SessionLocal_exit == [open |-> FALSE, txn |-> "closed"]

----------------------------------------------------------------------------
(* main.py: values built by the handlers *)

\* variant: the identifier is left out of the key
s3_key_of_FilenameOnly(file_id, filename) ==
    join(<< <<"u","p","l","o","a","d","s","/">>, filename >>)

\* f"uploads/{file_id}-{req.filename}"
s3_key_of(file_id, filename) ==
    join(<< <<"u","p","l","o","a","d","s","/">>, file_id, <<"-">>, filename >>)

\* variant: the size condition is left out of the policy
conditions_of_NoLength(content_type) ==
    << [cond |-> "eq", field |-> "Content-Type", value |-> content_type,
        lo |-> 0, hi |-> 0] >>

\* conditions = [{"Content-Type": ...}, ["content-length-range", 0, max]]
conditions_of(content_type) ==
    << [cond |-> "eq", field |-> "Content-Type", value |-> content_type,
        lo |-> 0, hi |-> 0],
       [cond |-> "content-length-range", field |-> "", value |-> "",
        lo |-> 0, hi |-> max_upload_bytes] >>

\* fields = {"Content-Type": req.content_type}
fields_of(content_type) == [ContentType |-> content_type]

\* s3_client.generate_presigned_post(Bucket, Key, Fields, Conditions, ExpiresIn)
\* when it does not raise: the grant carries what it was asked for
generate_presigned_post(Bucket, Key, Fields, Conditions, ExpiresIn) ==
    [url |-> Bucket,
     fields |-> [ContentType |-> Fields.ContentType, key |-> Key,
                 policy |-> [conditions |-> Conditions, expires_in |-> ExpiresIn]]]

\* s3_client.generate_presigned_url('get_object', Params, ExpiresIn)
generate_presigned_url(Bucket, Key, ExpiresIn) ==
    [kind |-> "presigned", Bucket |-> Bucket, Key |-> Key,
     ExpiresIn |-> ExpiresIn, path |-> <<>>]

\* f"/api/files/{file_id}/download"
fallback_url(file_id) ==
    [kind |-> "relative", Bucket |-> "", Key |-> <<>>, ExpiresIn |-> 0,
     path |-> join(<< <<"/","a","p","i","/","f","i","l","e","s","/">>, file_id,
                      <<"/","d","o","w","n","l","o","a","d">> >>)]

Call(api, key, result) == [api |-> api, Key |-> key, result |-> result]

NoLoc == [file_id |-> <<>>, s3_key |-> <<>>, presigned |-> None]
NoReq == [filename |-> <<>>, content_type |-> "", size_bytes |-> None,
          file_id |-> <<>>]
NoResp == [status |-> 0, detail |-> "", body |-> None]
NoProbe == [fn |-> "none"]

\* the request body of POST /api/generate-presigned-url, no path parameter
PresignRequest(r) ==
    [filename |-> r.filename, content_type |-> r.content_type,
     size_bytes |-> r.size_bytes, file_id |-> <<>>]

\* raise HTTPException(status_code, detail); an unhandled exception is
\* answered by the framework with 500
HTTPException(status_code, detail) ==
    [status |-> status_code, detail |-> detail, body |-> None]
Unhandled == HTTPException(500, "Internal Server Error")
Response(status_code, body) ==
    [status |-> status_code, detail |-> "", body |-> Some(body)]

----------------------------------------------------------------------------
(* Initial state: the service has started, the table exists and is empty,  *)
(* no request has arrived.                                                 *)

Init ==
    /\ store = {}
    /\ clock = 0
    /\ pc = [p \in Reqs |-> "idle"]
    /\ op = [p \in Reqs |-> "none"]
    /\ req = [p \in Reqs |-> NoReq]
    /\ reqTime = [p \in Reqs |-> 0]
    /\ loc = [p \in Reqs |-> NoLoc]
    /\ calls = [p \in Reqs |-> <<>>]
    /\ sess = [p \in Reqs |-> NoSession]
    /\ seen = [p \in Reqs |-> {}]
    /\ resp = [p \in Reqs |-> NoResp]
    /\ cloudfront_download_domain = None
    /\ probe = NoProbe

\* time passes
Tick ==
    /\ clock < MaxClock
    /\ clock' = clock + 1
    /\ UNCHANGED <<fixed, store, pc, op, req, reqTime, loc, calls, sess, seen, resp>>

\* a request enters a handler; requests are numbered in order of arrival
Enter(p, handler, input) ==
    /\ pc[p] = "idle"
    /\ IF p = 1 THEN TRUE ELSE pc[p - 1] # "idle"
    /\ op' = [op EXCEPT ![p] = handler]
    /\ req' = [req EXCEPT ![p] = input]
    /\ seen' = [seen EXCEPT ![p] = { q \in Reqs : pc[q] = "done" }]

\* the handler ends with the response r
Finish(p, r) ==
    /\ pc' = [pc EXCEPT ![p] = "done"]
    /\ resp' = [resp EXCEPT ![p] = r]

----------------------------------------------------------------------------
(* POST /api/generate-presigned-url *)

\* lines 43-63: identifier, storage key, policy; the upload grant is signed
RU_Presigned(p, r, rnd) ==
    LET file_id == generate_short_id(IdLen, rnd)
        s3_key == s3_key_of(file_id, r.filename)
        presigned == generate_presigned_post(
                         s3_bucket_name, s3_key, fields_of(r.content_type),
                         conditions_of(r.content_type), presigned_expiry_seconds)
    IN  /\ Enter(p, "generate_presigned_url", PresignRequest(r))
        /\ reqTime' = [reqTime EXCEPT ![p] = clock]
        /\ loc' = [loc EXCEPT ![p] = [file_id |-> file_id, s3_key |-> s3_key,
                                      presigned |-> Some(presigned)]]
        /\ calls' = [calls EXCEPT ![p] =
                        Append(@, Call("generate_presigned_post", s3_key, "ok"))]
        /\ pc' = [pc EXCEPT ![p] = "persist"]
        /\ UNCHANGED <<fixed, store, clock, sess, resp>>

\* variant: the record is written before the grant is requested, so a failed
\* signing call leaves it behind
RU_PresignFailed_PersistFirst(p, r, rnd) ==
    LET file_id == generate_short_id(IdLen, rnd)
        s3_key == s3_key_of(file_id, r.filename)
        record == FileObject(file_id, r.filename, s3_key, r.content_type,
                             r.size_bytes, clock)
    IN  /\ Enter(p, "generate_presigned_url", PresignRequest(r))
        /\ reqTime' = [reqTime EXCEPT ![p] = clock]
        /\ ~IntegrityError(store, record)
        /\ store' = store \cup {record}
        /\ loc' = [loc EXCEPT ![p] = [file_id |-> file_id, s3_key |-> s3_key,
                                      presigned |-> None]]
        /\ calls' = [calls EXCEPT ![p] =
                        Append(@, Call("generate_presigned_post", s3_key,
                                       "ClientError"))]
        /\ Finish(p, HTTPException(500, "Failed to create presigned URL"))
        /\ UNCHANGED <<fixed, clock, sess>>

\* lines 43-65: the signing call raises ClientError
RU_PresignFailed(p, r, rnd) ==
    LET file_id == generate_short_id(IdLen, rnd)
        s3_key == s3_key_of(file_id, r.filename)
    IN  /\ Enter(p, "generate_presigned_url", PresignRequest(r))
        /\ reqTime' = [reqTime EXCEPT ![p] = clock]
        /\ loc' = [loc EXCEPT ![p] = [file_id |-> file_id, s3_key |-> s3_key,
                                      presigned |-> None]]
        /\ calls' = [calls EXCEPT ![p] =
                        Append(@, Call("generate_presigned_post", s3_key,
                                       "ClientError"))]
        /\ Finish(p, HTTPException(500, "Failed to create presigned URL"))
        /\ UNCHANGED <<fixed, store, clock, sess>>

\* the record built at lines 69-75, with created_at filled in at INSERT
record_of(p) ==
    FileObject(loc[p].file_id, req[p].filename, loc[p].s3_key,
               req[p].content_type, req[p].size_bytes, clock)

\* variant: session.merge(record) in place of session.add(record), the row
\* with the same primary key is overwritten
RU_Persisted_Merge(p) ==
    /\ pc[p] = "persist"
    /\ store' = { r \in store : r.id # record_of(p).id } \cup {record_of(p)}
    /\ sess' = [sess EXCEPT ![p] = session_scope("ok")]
    /\ calls' = [calls EXCEPT ![p] =
                    Append(@, Call("session.commit", loc[p].s3_key, "ok"))]
    /\ pc' = [pc EXCEPT ![p] = "download"]
    /\ UNCHANGED <<fixed, clock, op, req, reqTime, loc, seen, resp>>

\* variant: session.add(record) is left out, the commit writes nothing
RU_Persisted_NoInsert(p) ==
    /\ pc[p] = "persist"
    /\ sess' = [sess EXCEPT ![p] = session_scope("ok")]
    /\ calls' = [calls EXCEPT ![p] =
                    Append(@, Call("session.commit", loc[p].s3_key, "ok"))]
    /\ pc' = [pc EXCEPT ![p] = "download"]
    /\ UNCHANGED <<fixed, store, clock, op, req, reqTime, loc, seen, resp>>

\* lines 68-76: session.add(record), commit on leaving session_scope
RU_Persisted(p) ==
    /\ pc[p] = "persist"
    /\ ~IntegrityError(store, record_of(p))
    /\ store' = store \cup {record_of(p)}
    /\ sess' = [sess EXCEPT ![p] = session_scope("ok")]
    /\ calls' = [calls EXCEPT ![p] =
                    Append(@, Call("session.commit", loc[p].s3_key, "ok"))]
    /\ pc' = [pc EXCEPT ![p] = "download"]
    /\ UNCHANGED <<fixed, clock, op, req, reqTime, loc, seen, resp>>

\* variant: on a refused INSERT the handler draws a new identifier and tries
\* again
RU_Conflict_Retry(p) ==
    /\ pc[p] = "persist"
    /\ IntegrityError(store, record_of(p))
    /\ \E rnd \in RndSamples :
          loc' = [loc EXCEPT ![p].file_id = generate_short_id(IdLen, rnd),
                             ![p].s3_key = s3_key_of(generate_short_id(IdLen, rnd),
                                                     req[p].filename)]
    /\ sess' = [sess EXCEPT ![p] = session_scope("IntegrityError")]
    /\ calls' = [calls EXCEPT ![p] =
                    Append(@, Call("session.commit", loc[p].s3_key,
                                   "IntegrityError"))]
    /\ UNCHANGED <<fixed, store, clock, pc, op, req, reqTime, seen, resp>>

\* variant: the failure of the commit is caught and the handler goes on
RU_Conflict_Swallowed(p) ==
    /\ pc[p] = "persist"
    /\ IntegrityError(store, record_of(p))
    /\ sess' = [sess EXCEPT ![p] = session_scope("IntegrityError")]
    /\ calls' = [calls EXCEPT ![p] =
                    Append(@, Call("session.commit", loc[p].s3_key,
                                   "IntegrityError"))]
    /\ pc' = [pc EXCEPT ![p] = "download"]
    /\ UNCHANGED <<fixed, store, clock, op, req, reqTime, loc, seen, resp>>

\* lines 68-76: the INSERT hits the primary key or the unique s3_key;
\* session_scope rolls back and re-raises, nothing in the handler catches it
RU_Conflict(p) ==
    /\ pc[p] = "persist"
    /\ IntegrityError(store, record_of(p))
    /\ sess' = [sess EXCEPT ![p] = session_scope("IntegrityError")]
    /\ calls' = [calls EXCEPT ![p] =
                    Append(@, Call("session.commit", loc[p].s3_key,
                                   "IntegrityError"))]
    /\ Finish(p, Unhandled)
    /\ UNCHANGED <<fixed, store, clock, op, req, reqTime, loc, seen>>

\* variant: the failed commit is caught and logged, the handler goes on
RU_DbError_Swallowed(p) ==
    /\ pc[p] = "persist"
    /\ sess' = [sess EXCEPT ![p] = session_scope("OperationalError")]
    /\ calls' = [calls EXCEPT ![p] =
                    Append(@, Call("session.commit", loc[p].s3_key,
                                   "OperationalError"))]
    /\ pc' = [pc EXCEPT ![p] = "download"]
    /\ UNCHANGED <<fixed, store, clock, op, req, reqTime, loc, seen, resp>>

\* lines 68-76: the database is unreachable or the commit fails otherwise
RU_DbError(p) ==
    /\ pc[p] = "persist"
    /\ sess' = [sess EXCEPT ![p] = session_scope("OperationalError")]
    /\ calls' = [calls EXCEPT ![p] =
                    Append(@, Call("session.commit", loc[p].s3_key,
                                   "OperationalError"))]
    /\ Finish(p, Unhandled)
    /\ UNCHANGED <<fixed, store, clock, op, req, reqTime, loc, seen>>

\* the PresignResponse of lines 92-97
PresignResponse(p, download_url) ==
    Response(200, [upload_url |-> loc[p].presigned[1].url,
                   form_fields |-> loc[p].presigned[1].fields,
                   file_id |-> loc[p].file_id,
                   download_url |-> download_url])

\* lines 79-87, 92-97: the download URL is signed, the response returned
RU_DownloadSigned(p) ==
    /\ pc[p] = "download"
    /\ calls' = [calls EXCEPT ![p] =
                    Append(@, Call("generate_presigned_url", loc[p].s3_key, "ok"))]
    /\ Finish(p, PresignResponse(p,
                    generate_presigned_url(s3_bucket_name, loc[p].s3_key,
                                           UploadDownloadExpiry)))
    /\ UNCHANGED <<fixed, store, clock, op, req, reqTime, loc, sess, seen>>

\* variant: the ClientError of the download URL is raised as a 500
RU_DownloadFallback_Raise(p) ==
    /\ pc[p] = "download"
    /\ calls' = [calls EXCEPT ![p] =
                    Append(@, Call("generate_presigned_url", loc[p].s3_key,
                                   "ClientError"))]
    /\ Finish(p, HTTPException(500, "Failed to generate download URL"))
    /\ UNCHANGED <<fixed, store, clock, op, req, reqTime, loc, sess, seen>>

\* lines 79-97: signing the download URL raises ClientError, fallback URL
RU_DownloadFallback(p) ==
    /\ pc[p] = "download"
    /\ calls' = [calls EXCEPT ![p] =
                    Append(@, Call("generate_presigned_url", loc[p].s3_key,
                                   "ClientError"))]
    /\ Finish(p, PresignResponse(p, fallback_url(loc[p].file_id)))
    /\ UNCHANGED <<fixed, store, clock, op, req, reqTime, loc, sess, seen>>

----------------------------------------------------------------------------
(* GET /api/files/{file_id} *)

\* lines 103-107: what the handler answers when the table is as given
metadata_response(table, file_id) ==
    LET result == select_first(table, file_id)
    IN  IF result = None
        THEN HTTPException(404, "Not found")
        ELSE Response(200, result[1])

get_file_metadata(p, file_id) ==
    /\ Enter(p, "get_file_metadata", [NoReq EXCEPT !.file_id = file_id])
    /\ sess' = [sess EXCEPT ![p] = SessionLocal_exit]
    /\ calls' = [calls EXCEPT ![p] = Append(@, Call("select", file_id, "ok"))]
    /\ Finish(p, metadata_response(store, file_id))
    /\ UNCHANGED <<fixed, store, clock, loc, reqTime>>

----------------------------------------------------------------------------
(* GET /api/files/{file_id}/download *)

\* lines 116-119: no row
GD_NotFound(p, file_id) ==
    /\ select_first(store, file_id) = None
    /\ Enter(p, "get_download_url", [NoReq EXCEPT !.file_id = file_id])
    /\ sess' = [sess EXCEPT ![p] = SessionLocal_exit]
    /\ calls' = [calls EXCEPT ![p] = Append(@, Call("select", file_id, "ok"))]
    /\ Finish(p, HTTPException(404, "File not found"))
    /\ UNCHANGED <<fixed, store, clock, loc, reqTime>>

\* variant: the key to sign is rebuilt from the path parameter
GD_Redirect_KeyFromId(p, file_id) ==
    LET result == select_first(store, file_id)
        key == s3_key_of(file_id, <<>>)
    IN  /\ result # None
        /\ Enter(p, "get_download_url", [NoReq EXCEPT !.file_id = file_id])
        /\ sess' = [sess EXCEPT ![p] = SessionLocal_exit]
        /\ calls' = [calls EXCEPT ![p] =
                        @ \o << Call("select", file_id, "ok"),
                                Call("generate_presigned_url", key, "ok") >>]
        /\ Finish(p, Response(307,
                        [location |-> generate_presigned_url(
                                          s3_bucket_name, key,
                                          OnDemandDownloadExpiry)]))
        /\ UNCHANGED <<fixed, store, clock, loc, reqTime>>

\* variant: the row is stamped with the time of the download
GD_Redirect_Touch(p, file_id) ==
    LET result == select_first(store, file_id)
    IN  /\ result # None
        /\ Enter(p, "get_download_url", [NoReq EXCEPT !.file_id = file_id])
        /\ sess' = [sess EXCEPT ![p] = session_scope("ok")]
        /\ store' = (store \ {result[1]})
                        \cup {[result[1] EXCEPT !.created_at = clock]}
        /\ calls' = [calls EXCEPT ![p] =
                        @ \o << Call("select", file_id, "ok"),
                                Call("generate_presigned_url", result[1].s3_key,
                                     "ok") >>]
        /\ Finish(p, Response(307,
                        [location |-> generate_presigned_url(
                                          s3_bucket_name, result[1].s3_key,
                                          OnDemandDownloadExpiry)]))
        /\ UNCHANGED <<fixed, clock, loc, reqTime>>

\* lines 116-132: the row is found, a URL is signed for its s3_key
GD_Redirect(p, file_id) ==
    LET result == select_first(store, file_id)
    IN  /\ result # None
        /\ Enter(p, "get_download_url", [NoReq EXCEPT !.file_id = file_id])
        /\ sess' = [sess EXCEPT ![p] = SessionLocal_exit]
        /\ calls' = [calls EXCEPT ![p] =
                        @ \o << Call("select", file_id, "ok"),
                                Call("generate_presigned_url", result[1].s3_key,
                                     "ok") >>]
        /\ Finish(p, Response(307,
                        [location |-> generate_presigned_url(
                                          s3_bucket_name, result[1].s3_key,
                                          OnDemandDownloadExpiry)]))
        /\ UNCHANGED <<fixed, store, clock, loc, reqTime>>

\* variant: on ClientError the handler redirects to the relative download path
GD_IssuerError_Fallback(p, file_id) ==
    LET result == select_first(store, file_id)
    IN  /\ result # None
        /\ Enter(p, "get_download_url", [NoReq EXCEPT !.file_id = file_id])
        /\ sess' = [sess EXCEPT ![p] = SessionLocal_exit]
        /\ calls' = [calls EXCEPT ![p] =
                        @ \o << Call("select", file_id, "ok"),
                                Call("generate_presigned_url", result[1].s3_key,
                                     "ClientError") >>]
        /\ Finish(p, Response(307, [location |-> fallback_url(file_id)]))
        /\ UNCHANGED <<fixed, store, clock, loc, reqTime>>

\* lines 116-134: the row is found, signing raises ClientError
GD_IssuerError(p, file_id) ==
    LET result == select_first(store, file_id)
    IN  /\ result # None
        /\ Enter(p, "get_download_url", [NoReq EXCEPT !.file_id = file_id])
        /\ sess' = [sess EXCEPT ![p] = SessionLocal_exit]
        /\ calls' = [calls EXCEPT ![p] =
                        @ \o << Call("select", file_id, "ok"),
                                Call("generate_presigned_url", result[1].s3_key,
                                     "ClientError") >>]
        /\ Finish(p, HTTPException(500, "Failed to generate download URL"))
        /\ UNCHANGED <<fixed, store, clock, loc, reqTime>>

----------------------------------------------------------------------------

Next ==
    \/ Tick
    \/ \E p \in Reqs, r \in PresignRequests, rnd \in RndSamples :
          RU_Presigned(p, r, rnd)
    \/ \E p \in Reqs, r \in PresignRequests, rnd \in RndSamples :
          RU_PresignFailed(p, r, rnd)
    \/ \E p \in Reqs : RU_Persisted(p)
    \/ \E p \in Reqs : RU_Conflict(p)
    \/ \E p \in Reqs : RU_DbError(p)
    \/ \E p \in Reqs : RU_DownloadSigned(p)
    \/ \E p \in Reqs : RU_DownloadFallback(p)
    \/ \E p \in Reqs, file_id \in PathIds : get_file_metadata(p, file_id)
    \/ \E p \in Reqs, file_id \in PathIds : GD_NotFound(p, file_id)
    \/ \E p \in Reqs, file_id \in PathIds : GD_Redirect(p, file_id)
    \/ \E p \in Reqs, file_id \in PathIds : GD_IssuerError(p, file_id)

Spec == Init /\ [][Next]_vars

\* values of Settings.cloudfront_download_domain: the default and the
\* example of config.py
Domains == { None, Some("dxxxxx.cloudfront.net") }

\* the service has started in some deployment
InitDeployed ==
    /\ store = {}
    /\ clock = 0
    /\ pc = [p \in Reqs |-> "idle"]
    /\ op = [p \in Reqs |-> "none"]
    /\ req = [p \in Reqs |-> NoReq]
    /\ reqTime = [p \in Reqs |-> 0]
    /\ loc = [p \in Reqs |-> NoLoc]
    /\ calls = [p \in Reqs |-> <<>>]
    /\ sess = [p \in Reqs |-> NoSession]
    /\ seen = [p \in Reqs |-> {}]
    /\ resp = [p \in Reqs |-> NoResp]
    /\ cloudfront_download_domain \in Domains
    /\ probe = NoProbe

SpecDeployed == InitDeployed /\ [][Next]_vars

----------------------------------------------------------------------------
(* The functions of utils/id.py and the storage key, called on their own   *)

\* positions of ALPHABET the random source is made to yield: the first and
\* the last lower-case letter, upper-case letter and digit
DrawSamples == {1, 26, 27, 52, 53, 62}

Lengths == (0 - MaxLen)..MaxLen

\* generate_short_id(length)
Probe_generate_short_id(length, rnd) ==
    /\ probe' = [fn |-> "generate_short_id", length |-> length,
                 out |-> generate_short_id(length, rnd),
                 drawn |-> draws_made(length)]
    /\ UNCHANGED <<store, clock, pc, op, req, reqTime, loc, calls, sess, seen,
                   resp, cloudfront_download_domain>>

\* generate_short_id()
Probe_generate_short_id_default(rnd) ==
    /\ probe' = [fn |-> "generate_short_id()", length |-> DefaultLength,
                 out |-> generate_short_id_default(rnd),
                 drawn |-> draws_made(DefaultLength)]
    /\ UNCHANGED <<store, clock, pc, op, req, reqTime, loc, calls, sess, seen,
                   resp, cloudfront_download_domain>>

\* identifiers of the length the upload handler asks for, differing in the
\* first or the last character
ProbeIds ==
    { generate_short_id(IdLen, [k \in 1..IdLen |->
                                   IF k = 1 THEN i ELSE IF k = IdLen THEN j ELSE 1])
        : i \in {1, 2}, j \in {1, 2} }

\* filenames: empty, a dash, plain, with a dash, starting like an identifier
ProbeFilenames ==
    { <<>>, <<"-">>, <<"x">>, <<"a","-","x">>,
      <<"a","a","a","a","a","b","-","x">> }

\* the storage keys of two requests, and whether the INSERT of the second
\* record is refused when the first one is in the table
Probe_s3_key(id1, filename1, id2, filename2) ==
    LET key1 == s3_key_of(id1, filename1)
        key2 == s3_key_of(id2, filename2)
    IN  /\ probe' = [fn |-> "s3_key", id1 |-> id1, filename1 |-> filename1,
                     id2 |-> id2, filename2 |-> filename2,
                     key1 |-> key1, key2 |-> key2,
                     refused |-> IntegrityError(
                         {FileObject(id1, filename1, key1, "", None, 0)},
                         FileObject(id2, filename2, key2, "", None, 0))]
        /\ UNCHANGED <<store, clock, pc, op, req, reqTime, loc, calls, sess,
                       seen, resp, cloudfront_download_domain>>

NextFunctions ==
    \/ \E id1 \in ProbeIds, id2 \in ProbeIds,
          filename1 \in ProbeFilenames, filename2 \in ProbeFilenames :
              Probe_s3_key(id1, filename1, id2, filename2)
    \/ \E length \in Lengths :
          \E rnd \in [1..(IF length > 0 THEN length ELSE 0) -> DrawSamples] :
              Probe_generate_short_id(length, rnd)
    \/ \E rnd \in [1..DefaultLength -> {1, 62}] :
          Probe_generate_short_id_default(rnd)

SpecFunctions == Init /\ [][NextFunctions]_vars

----------------------------------------------------------------------------
(* Vocabulary of the properties *)

IsUpload(p) == op[p] = "generate_presigned_url"
IsMetadata(p) == op[p] = "get_file_metadata"
IsDownload(p) == op[p] = "get_download_url"

\* positions in the call log of p of the calls to api
CallsOf(p, api) == { i \in 1..Len(calls[p]) : calls[p][i].api = api }

\* p has called api with the given result
Made(p, api, result) ==
    \E i \in CallsOf(p, api) : calls[p][i].result = result

\* p's response is a success that carries a body
Returned(p, status_code) ==
    pc[p] = "done" /\ resp[p].status = status_code /\ resp[p].body # None

----------------------------------------------------------------------------
(* C1: when signing the upload grant raises ClientError, the request ends  *)
(* with a 500 response without a body, it has opened no session and made   *)
(* no commit, and every record that carries its identifier was committed   *)
(* by another request.                                                     *)

C1_IssuerFailureCreatesNothing ==
    \A p \in Reqs :
        (IsUpload(p) /\ Made(p, "generate_presigned_post", "ClientError")) =>
            /\ pc[p] = "done"
            /\ resp[p] = HTTPException(500, "Failed to create presigned URL")
            /\ CallsOf(p, "session.commit") = {}
            /\ sess[p] = NoSession
            /\ \A r \in store :
                  r.id = loc[p].file_id =>
                      \E q \in Reqs \ {p} :
                          /\ Made(q, "session.commit", "ok")
                          /\ loc[q].file_id = r.id

\* a request failed at signing while another request stored a record under
\* the identifier the failed request had drawn
C1_Witness ==
    \E p \in Reqs, q \in Reqs :
        /\ p # q
        /\ IsUpload(p) /\ Made(p, "generate_presigned_post", "ClientError")
        /\ pc[p] = "done"
        /\ Made(q, "session.commit", "ok")
        /\ loc[q].file_id = loc[p].file_id
        /\ \E r \in store : r.id = loc[p].file_id

----------------------------------------------------------------------------
(* C2: the table never holds two records with the same id or the same      *)
(* s3_key; of the requests that try to create a record under one           *)
(* identifier or storage key exactly one commits, every other one gets     *)
(* IntegrityError and a 500 response, and the record of the one that       *)
(* committed stays in the table with the values of its own request.        *)

\* the record in the table is the one request p asked for
StoredFor(r, p) ==
    /\ r.id = loc[p].file_id
    /\ r.original_filename = req[p].filename
    /\ r.s3_key = loc[p].s3_key
    /\ r.content_type = req[p].content_type
    /\ r.size_bytes = req[p].size_bytes

Collide(p, q) ==
    loc[p].file_id = loc[q].file_id \/ loc[p].s3_key = loc[q].s3_key

C2_UniqueCreate ==
    /\ \A r1 \in store, r2 \in store :
          (r1.id = r2.id \/ r1.s3_key = r2.s3_key) => r1 = r2
    /\ \A p \in Reqs :
          Made(p, "session.commit", "ok") => \E r \in store : StoredFor(r, p)
    /\ \A p \in Reqs :
          Made(p, "session.commit", "IntegrityError") =>
              /\ pc[p] = "done"
              /\ resp[p] = Unhandled
              /\ Cardinality({ q \in Reqs \ {p} :
                                 /\ Made(q, "session.commit", "ok")
                                 /\ Collide(p, q) }) = 1
    /\ \A p \in Reqs, q \in Reqs :
          (p # q /\ Made(p, "session.commit", "ok")
                 /\ Made(q, "session.commit", "ok")) => ~Collide(p, q)

\* two requests in flight together drew one identifier: the first commit
\* succeeded and its response is still to come, the second was refused
C2_Witness ==
    \E p \in Reqs, q \in Reqs :
        /\ p # q
        /\ loc[p].file_id = loc[q].file_id
        /\ req[p].filename # req[q].filename
        /\ pc[p] = "download"
        /\ Made(q, "session.commit", "IntegrityError")
        /\ \E r \in store : StoredFor(r, p)

----------------------------------------------------------------------------
(* C3: once a RequestUpload has returned 200 with file_id, the metadata    *)
(* handler answers 200 for file_id with a record whose id is file_id,      *)
(* whose original_filename, content_type and size_bytes are the request's  *)
(* and whose created_at is not earlier than the request's arrival; so did  *)
(* every metadata request that arrived after the upload had returned.      *)

MatchesUpload(answer, p) ==
    /\ answer.status = 200
    /\ answer.body # None
    /\ answer.body[1].id = resp[p].body[1].file_id
    /\ answer.body[1].original_filename = req[p].filename
    /\ answer.body[1].content_type = req[p].content_type
    /\ answer.body[1].size_bytes = req[p].size_bytes
    /\ answer.body[1].created_at >= reqTime[p]

C3_MetadataMatchesUpload ==
    \A p \in Reqs :
        (IsUpload(p) /\ Returned(p, 200)) =>
            /\ MatchesUpload(metadata_response(store, resp[p].body[1].file_id), p)
            /\ \A q \in Reqs :
                  (/\ IsMetadata(q)
                   /\ p \in seen[q]
                   /\ req[q].file_id = resp[p].body[1].file_id)
                      => MatchesUpload(resp[q], p)

\* an upload that arrived at time 1 returned, a metadata request for its
\* file_id arrived afterwards and was answered
C3_Witness ==
    \E p \in Reqs, q \in Reqs :
        /\ IsUpload(p) /\ Returned(p, 200)
        /\ reqTime[p] = 1
        /\ req[p].size_bytes = Some(100)
        /\ IsMetadata(q) /\ pc[q] = "done"
        /\ p \in seen[q]
        /\ req[q].file_id = resp[p].body[1].file_id
        /\ resp[q].status = 200

----------------------------------------------------------------------------
(* C4 as claimed: a RequestUpload that arrives after another one with the  *)
(* same filename and content_type has returned draws a different file_id   *)
(* and derives a different storage key.                                    *)

C4_Original ==
    \A p \in Reqs, q \in Reqs :
        (/\ IsUpload(p) /\ Returned(p, 200)
         /\ IsUpload(q)
         /\ p \in seen[q]
         /\ req[p].filename = req[q].filename
         /\ req[p].content_type = req[q].content_type)
            => /\ loc[p].file_id # loc[q].file_id
               /\ loc[p].s3_key # loc[q].s3_key

(* C4 as amended: two RequestUploads that both return 200 return different *)
(* file_ids and grants for different storage keys; a request that derives  *)
(* the storage key of a record already committed does not return 200.      *)

C4_SuccessfulUploadsDistinct ==
    /\ \A p \in Reqs, q \in Reqs :
          (/\ p # q
           /\ IsUpload(p) /\ Returned(p, 200)
           /\ IsUpload(q) /\ Returned(q, 200))
              => /\ resp[p].body[1].file_id # resp[q].body[1].file_id
                 /\ resp[p].body[1].form_fields.key # resp[q].body[1].form_fields.key
    /\ \A p \in Reqs, q \in Reqs :
          (/\ IsUpload(p) /\ IsUpload(q)
           /\ p \in seen[q]
           /\ Made(p, "session.commit", "ok")
           /\ loc[q].s3_key = loc[p].s3_key)
              => ~Returned(q, 200)

\* two uploads with the same filename and content_type, one after the
\* other, both returned 200
C4_Witness ==
    \E p \in Reqs, q \in Reqs :
        /\ IsUpload(p) /\ Returned(p, 200)
        /\ IsUpload(q) /\ Returned(q, 200)
        /\ p \in seen[q]
        /\ req[p].filename = req[q].filename
        /\ req[p].content_type = req[q].content_type

----------------------------------------------------------------------------
(* C5: no step removes or changes a record: for every record in the table  *)
(* the records with its id after the step are that record alone.           *)

C5_RecordsImmutable ==
    [][ \A r \in store : { x \in store' : x.id = r.id } = {r} ]_vars

\* a record created at time 0 is in the table at time 1 after a refused
\* create for its id and a download request for it
C5_Witness ==
    \E r \in store, p \in Reqs, q \in Reqs :
        /\ r.created_at = 0
        /\ clock = 1
        /\ Made(p, "session.commit", "IntegrityError")
        /\ loc[p].file_id = r.id
        /\ IsDownload(q) /\ pc[q] = "done"
        /\ req[q].file_id = r.id

----------------------------------------------------------------------------
(* C6: a RequestUpload calls generate_presigned_post exactly once, commits *)
(* at most once and signs at most one download URL, always for the storage *)
(* key of the identifier it drew first; a refused or failed commit ends    *)
(* the request with a 500 response; the storage key of an issued grant is  *)
(* held by at most one record.                                             *)

C6_NoRetries ==
    \A p \in Reqs :
        IsUpload(p) =>
            /\ Cardinality(CallsOf(p, "generate_presigned_post")) = 1
            /\ Cardinality(CallsOf(p, "session.commit")) <= 1
            /\ Cardinality(CallsOf(p, "generate_presigned_url")) <= 1
            /\ loc[p].s3_key = s3_key_of(loc[p].file_id, req[p].filename)
            /\ \A i \in 1..Len(calls[p]) : calls[p][i].Key = loc[p].s3_key
            /\ (\/ Made(p, "session.commit", "IntegrityError")
                \/ Made(p, "session.commit", "OperationalError"))
                  => (pc[p] = "done" /\ resp[p] = Unhandled)
            /\ Made(p, "generate_presigned_post", "ok")
                  => Cardinality({ r \in store : r.s3_key = loc[p].s3_key }) <= 1

\* one request ended on a refused INSERT and another on a failed commit
C6_Witness ==
    \E p \in Reqs, q \in Reqs :
        /\ IsUpload(p) /\ pc[p] = "done"
        /\ Made(p, "session.commit", "IntegrityError")
        /\ IsUpload(q) /\ pc[q] = "done"
        /\ Made(q, "session.commit", "OperationalError")

----------------------------------------------------------------------------
(* C7: a download request for an identifier without a record is answered   *)
(* 404 and signs nothing; any other answer means the record exists, the    *)
(* request asked the issuer once, for that record's s3_key, and a redirect *)
(* points at that s3_key in the configured bucket; a request that arrives  *)
(* after an upload returned its file_id is not answered 404.               *)

C7_DownloadTargetsRecordKey ==
    \A q \in Reqs :
        (IsDownload(q) /\ pc[q] = "done") =>
            LET rows == { r \in store : r.id = req[q].file_id }
            IN  /\ rows = {} => resp[q] = HTTPException(404, "File not found")
                /\ resp[q].status = 404 =>
                      CallsOf(q, "generate_presigned_url") = {}
                /\ resp[q].status # 404 =>
                      /\ rows # {}
                      /\ Cardinality(CallsOf(q, "generate_presigned_url")) = 1
                      /\ \A r \in rows :
                            \A i \in CallsOf(q, "generate_presigned_url") :
                                calls[q][i].Key = r.s3_key
                /\ Returned(q, 307) =>
                      \A r \in rows :
                          /\ resp[q].body[1].location.kind = "presigned"
                          /\ resp[q].body[1].location.Key = r.s3_key
                          /\ resp[q].body[1].location.Bucket = s3_bucket_name
                /\ \A p \in seen[q] :
                      (IsUpload(p) /\ Returned(p, 200)
                         /\ resp[p].body[1].file_id = req[q].file_id)
                          => resp[q].status # 404

\* one download request was answered 404, another was redirected to the
\* key of the record stored for the file "b-c"
C7_Witness ==
    \E q \in Reqs, t \in Reqs :
        /\ IsDownload(q) /\ resp[q].status = 404
        /\ IsDownload(t) /\ Returned(t, 307)
        /\ \E r \in store :
              /\ r.id = req[t].file_id
              /\ r.original_filename = <<"b","-","c">>
              /\ resp[t].body[1].location.Key = r.s3_key

----------------------------------------------------------------------------
(* C8: a step of the download handler leaves the table and every other     *)
(* request untouched, its answer is 404 when the table has no record for   *)
(* the identifier and a redirect or a 500 otherwise whatever other         *)
(* requests did, and a redirect comes with a signing call of its own.      *)

C8_DownloadHasNoSideEffect ==
    [][ \A q \in Reqs :
          (pc[q] = "idle" /\ op'[q] = "get_download_url") =>
              /\ store' = store
              /\ \A t \in Reqs \ {q} :
                    /\ resp'[t] = resp[t]
                    /\ calls'[t] = calls[t]
                    /\ loc'[t] = loc[t]
                    /\ sess'[t] = sess[t]
              /\ IF \A r \in store : r.id # req'[q].file_id
                 THEN resp'[q].status = 404
                 ELSE resp'[q].status \in {307, 500}
              /\ resp'[q].status = 307 =>
                    \E i \in 1..Len(calls'[q]) :
                        /\ calls'[q][i].api = "generate_presigned_url"
                        /\ calls'[q][i].result = "ok"
                        /\ calls'[q][i].Key = resp'[q].body[1].location.Key
              /\ sess'[q].txn # "committed"
      ]_vars

\* two download requests for one stored identifier, one after the other:
\* the first failed at the issuer, the second was redirected, at time 1,
\* and the record created at time 0 is as it was
C8_Witness ==
    \E q \in Reqs, t \in Reqs :
        /\ IsDownload(q) /\ IsDownload(t)
        /\ req[q].file_id = req[t].file_id
        /\ q \in seen[t]
        /\ resp[q].status = 500
        /\ Returned(t, 307)
        /\ clock = 1
        /\ \E r \in store : r.id = req[t].file_id /\ r.created_at = 0

----------------------------------------------------------------------------
(* C9: a step of the metadata handler leaves the table unchanged; it       *)
(* answers 404 when the table has no record with the identifier, and 200   *)
(* with the whole record when it has one.                                  *)

C9_MetadataLookup ==
    [][ \A q \in Reqs :
          (pc[q] = "idle" /\ op'[q] = "get_file_metadata") =>
              /\ store' = store
              /\ (\A r \in store : r.id # req'[q].file_id)
                    => resp'[q] = HTTPException(404, "Not found")
              /\ \A r \in store :
                    r.id = req'[q].file_id => resp'[q] = Response(200, r)
      ]_vars

\* one metadata request was answered 404 and a later one, for the same
\* identifier, 200 with the record in the table
C9_Witness ==
    \E q \in Reqs, t \in Reqs :
        /\ IsMetadata(q) /\ resp[q].status = 404
        /\ IsMetadata(t) /\ Returned(t, 200)
        /\ req[q].file_id = req[t].file_id
        /\ resp[t].body[1] \in store

----------------------------------------------------------------------------
(* C10: the policy of every upload grant accepts an upload exactly when    *)
(* its Content-Type is the requested one and its length is within          *)
(* 0..max_upload_bytes; the grant is for the key derived from the          *)
(* request's identifier and filename and expires as configured; the        *)
(* response hands out that grant.                                          *)

\* uploads tried against the policy
OtherContentType == "application/pdf"
SimulatedUploads ==
    [ContentType : { r.content_type : r \in PresignRequests } \cup {OtherContentType},
     size : {0, 100, max_upload_bytes, max_upload_bytes + 1}]

\* the storage service's evaluation of a POST policy: every condition holds
PolicyAccepts(policy, upload) ==
    \A i \in 1..Len(policy.conditions) :
        LET c == policy.conditions[i]
        IN  /\ c.cond = "eq" =>
                  (c.field = "Content-Type" /\ upload.ContentType = c.value)
            /\ c.cond = "content-length-range" =>
                  (c.lo <= upload.size /\ upload.size <= c.hi)

C10_GrantPolicy ==
    \A p \in Reqs :
        (IsUpload(p) /\ loc[p].presigned # None) =>
            LET grant == loc[p].presigned[1]
            IN  /\ \A u \in SimulatedUploads :
                      PolicyAccepts(grant.fields.policy, u)
                          <=> /\ u.ContentType = req[p].content_type
                              /\ 0 <= u.size
                              /\ u.size <= max_upload_bytes
                /\ grant.fields.ContentType = req[p].content_type
                /\ grant.fields.key = s3_key_of(loc[p].file_id, req[p].filename)
                /\ grant.fields.policy.expires_in = presigned_expiry_seconds
                /\ grant.url = s3_bucket_name
                /\ Returned(p, 200) =>
                      /\ resp[p].body[1].form_fields = grant.fields
                      /\ resp[p].body[1].upload_url = grant.url
                      /\ \A r \in store :
                            r.id = resp[p].body[1].file_id
                                => r.s3_key = grant.fields.key

\* grants for both content types were handed out
C10_Witness ==
    \E p \in Reqs, q \in Reqs :
        /\ IsUpload(p) /\ Returned(p, 200)
        /\ IsUpload(q) /\ Returned(q, 200)
        /\ req[p].content_type = "image/png"
        /\ req[q].content_type = "text/plain"
        /\ resp[q].body[1].form_fields.policy.conditions # <<>>

----------------------------------------------------------------------------
(* C11: for a length above 0, generate_short_id(length) returns, not       *)
(* raises, a string of exactly length characters, each one of the 62       *)
(* symbols A-Z, a-z, 0-9; called without an argument it returns 6 such     *)
(* characters; ALPHABET is exactly those 62 symbols.                       *)

UpperCase == {"A","B","C","D","E","F","G","H","I","J","K","L","M",
              "N","O","P","Q","R","S","T","U","V","W","X","Y","Z"}
LowerCase == {"a","b","c","d","e","f","g","h","i","j","k","l","m",
              "n","o","p","q","r","s","t","u","v","w","x","y","z"}
Digits == {"0","1","2","3","4","5","6","7","8","9"}
Symbols == UpperCase \cup LowerCase \cup Digits

IsShortId(s, length) ==
    /\ s # ValueError
    /\ Len(s) = length
    /\ \A k \in 1..Len(s) : s[k] \in Symbols

C11_ShortIdShape ==
    /\ Len(ALPHABET) = 62
    /\ { ALPHABET[k] : k \in 1..Len(ALPHABET) } = Symbols
    /\ Cardinality(Symbols) = 62
    /\ (probe.fn = "generate_short_id" /\ probe.length > 0)
          => IsShortId(probe.out, probe.length)
    /\ probe.fn = "generate_short_id()" => IsShortId(probe.out, 6)

\* a call with length 3 returned a lower-case letter, an upper-case letter
\* and a digit
C11_Witness ==
    /\ probe.fn = "generate_short_id"
    /\ probe.length = 3
    /\ probe.out = <<"z", "A", "9">>

----------------------------------------------------------------------------
(* C12: generate_short_id(length) with length 0 or negative raises         *)
(* ValueError, returns no identifier and has drawn no character.           *)

C12_NonPositiveLengthRejected ==
    (probe.fn = "generate_short_id" /\ probe.length <= 0) =>
        /\ probe.out = ValueError
        /\ probe.drawn = 0

\* the call generate_short_id(0) has been made
C12_Witness ==
    /\ probe.fn = "generate_short_id"
    /\ probe.length = 0
    /\ probe.out = ValueError

----------------------------------------------------------------------------
(* C18: the storage key is "uploads/", the identifier, "-", the filename;  *)
(* for identifiers of the same length two keys are equal only when both    *)
(* the identifiers and the filenames are equal, so distinct identifiers    *)
(* give distinct keys whatever the filenames, and an INSERT is refused     *)
(* exactly when the identifier is already in the table.                    *)

IsKeyOf(key, id, filename) ==
    /\ Len(key) = 8 + Len(id) + 1 + Len(filename)
    /\ SubSeq(key, 1, 8) = <<"u","p","l","o","a","d","s","/">>
    /\ SubSeq(key, 9, 8 + Len(id)) = id
    /\ key[9 + Len(id)] = "-"
    /\ SubSeq(key, 10 + Len(id), Len(key)) = filename

C18_KeyInjectiveInId ==
    probe.fn = "s3_key" =>
        /\ IsKeyOf(probe.key1, probe.id1, probe.filename1)
        /\ IsKeyOf(probe.key2, probe.id2, probe.filename2)
        /\ probe.id1 # probe.id2 => probe.key1 # probe.key2
        /\ probe.key1 = probe.key2
              <=> (probe.id1 = probe.id2 /\ probe.filename1 = probe.filename2)
        /\ probe.refused <=> probe.id1 = probe.id2

\* two distinct identifiers, the filename of the first starting with the
\* second identifier and a dash
C18_Witness ==
    /\ probe.fn = "s3_key"
    /\ probe.id1 = <<"a","a","a","a","a","a">>
    /\ probe.id2 = <<"a","a","a","a","a","b">>
    /\ probe.filename1 = <<"a","a","a","a","a","b","-","x">>
    /\ probe.filename2 = <<"x">>
    /\ ~probe.refused

----------------------------------------------------------------------------
(* C13 as claimed: every request that used a session has it closed, and    *)
(* the session was committed exactly when the work done in it ended        *)
(* without error.                                                          *)

\* the work request p did inside its session ended without error
WorkSucceeded(p) ==
    IF IsUpload(p)
    THEN Made(p, "session.commit", "ok")
    ELSE resp[p].status \in {200, 307}

C13_Original ==
    \A p \in Reqs :
        (pc[p] = "done" /\ sess[p] # NoSession) =>
            /\ ~sess[p].open
            /\ sess[p].txn = "committed" <=> WorkSucceeded(p)

(* C13 as amended: the session of a RequestUpload is committed exactly     *)
(* when its commit succeeds and is rolled back, with the failure answered  *)
(* 500, when the commit fails; the sessions of the two read handlers are   *)
(* never committed, only closed; no session is open once its handler step  *)
(* is over; the table holds exactly one record per successful commit.      *)

C13_TransactionScope ==
    /\ \A p \in Reqs :
          /\ ~sess[p].open
          /\ IsUpload(p) =>
                /\ sess[p].txn = "committed" <=> Made(p, "session.commit", "ok")
                /\ (\/ Made(p, "session.commit", "IntegrityError")
                    \/ Made(p, "session.commit", "OperationalError"))
                      => /\ sess[p].txn = "rolledback"
                         /\ pc[p] = "done"
                         /\ resp[p] = Unhandled
                /\ CallsOf(p, "session.commit") = {} => sess[p] = NoSession
          /\ (IsMetadata(p) \/ IsDownload(p)) => sess[p] = SessionLocal_exit
    /\ \A r \in store :
          \E p \in Reqs : Made(p, "session.commit", "ok") /\ StoredFor(r, p)
    /\ Cardinality(store)
          = Cardinality({ p \in Reqs : Made(p, "session.commit", "ok") })

\* all requests are answered: one committed, one was rolled back, one read
C13_Witness ==
    /\ \A p \in Reqs : pc[p] = "done"
    /\ \E p \in Reqs, q \in Reqs, t \in Reqs :
          /\ sess[p].txn = "committed"
          /\ sess[q].txn = "rolledback"
          /\ IsMetadata(t) /\ resp[t].status = 200
          /\ sess[t].txn = "closed"

----------------------------------------------------------------------------
(* C14 as claimed: when the upload grant was issued and the commit of the  *)
(* record then failed, the caller holds the grant: the response of the     *)
(* request carries it.                                                     *)

CommitFailed(p) ==
    \/ Made(p, "session.commit", "IntegrityError")
    \/ Made(p, "session.commit", "OperationalError")

C14_Original ==
    \A p \in Reqs :
        (/\ IsUpload(p) /\ pc[p] = "done"
         /\ Made(p, "generate_presigned_post", "ok")
         /\ CommitFailed(p))
            => /\ resp[p].body # None
               /\ resp[p].body[1].form_fields = loc[p].presigned[1].fields

(* C14 as amended: when the upload grant was issued and the commit of the  *)
(* record then failed, the request is answered 500 without a body, so the  *)
(* signed grant is dropped and not delivered; every grant that a response  *)
(* does deliver is for an identifier that has a record.                    *)

C14_FailedPersistenceDeliversNoGrant ==
    \A p \in Reqs :
        IsUpload(p) =>
            /\ (Made(p, "generate_presigned_post", "ok") /\ CommitFailed(p))
                  => /\ pc[p] = "done"
                     /\ resp[p] = Unhandled
                     /\ resp[p].body = None
            /\ Returned(p, 200)
                  => /\ Made(p, "session.commit", "ok")
                     /\ \E r \in store : r.id = resp[p].body[1].file_id

\* a grant was signed, the commit failed, and no record has the identifier
C14_Witness ==
    \E p \in Reqs :
        /\ IsUpload(p) /\ pc[p] = "done"
        /\ loc[p].presigned # None
        /\ Made(p, "session.commit", "OperationalError")
        /\ \A r \in store : r.id # loc[p].file_id

----------------------------------------------------------------------------
(* C15 as claimed: when signing the download URL fails after the record    *)
(* was committed, the request returns 200 with the upload grant, the       *)
(* file_id and a download reference that is built from the record's        *)
(* storage key, and the record stays in the table.                         *)

\* t occurs in s as a run of consecutive characters
Contains(s, t) ==
    \E i \in 0..(Len(s) - Len(t)) : SubSeq(s, i + 1, i + Len(t)) = t

\* the reference names the storage key
BuiltFromKey(url, key) == url.Key = key \/ Contains(url.path, key)

DownloadSigningFailed(p) ==
    IsUpload(p) /\ Made(p, "generate_presigned_url", "ClientError")

ReturnsGrantAndId(p) ==
    /\ Returned(p, 200)
    /\ resp[p].body[1].form_fields = loc[p].presigned[1].fields
    /\ resp[p].body[1].upload_url = loc[p].presigned[1].url
    /\ resp[p].body[1].file_id = loc[p].file_id
    /\ \E r \in store : StoredFor(r, p)

C15_Original ==
    \A p \in Reqs :
        DownloadSigningFailed(p) =>
            /\ ReturnsGrantAndId(p)
            /\ BuiltFromKey(resp[p].body[1].download_url, loc[p].s3_key)

(* C15 as amended: when signing the download URL fails after the record    *)
(* was committed, the request returns 200 with the upload grant, the       *)
(* file_id and the download reference "/api/files/<file_id>/download",     *)
(* which is built from the file_id and does not name the storage key; the  *)
(* record stays in the table.                                              *)

IsDownloadRoute(path, file_id) ==
    /\ Len(path) = 11 + Len(file_id) + 9
    /\ SubSeq(path, 1, 11) = <<"/","a","p","i","/","f","i","l","e","s","/">>
    /\ SubSeq(path, 12, 11 + Len(file_id)) = file_id
    /\ SubSeq(path, 12 + Len(file_id), Len(path))
          = <<"/","d","o","w","n","l","o","a","d">>

C15_FallbackOnDownloadSigningFailure ==
    \A p \in Reqs :
        DownloadSigningFailed(p) =>
            /\ ReturnsGrantAndId(p)
            /\ resp[p].body[1].download_url.kind = "relative"
            /\ IsDownloadRoute(resp[p].body[1].download_url.path, loc[p].file_id)
            /\ ~BuiltFromKey(resp[p].body[1].download_url, loc[p].s3_key)

\* an upload of "b-c" returned the fallback reference
C15_Witness ==
    \E p \in Reqs :
        /\ DownloadSigningFailed(p)
        /\ Returned(p, 200)
        /\ req[p].filename = <<"b","-","c">>
        /\ resp[p].body[1].download_url = fallback_url(loc[p].file_id)

----------------------------------------------------------------------------
(* C16: when cloudfront_download_domain is set, the download reference of  *)
(* a RequestUpload response is a stable reference built from the storage   *)
(* key, without expiry and not a signed URL; when it is not set and the    *)
(* download URL could be signed, the reference is a signed URL for the     *)
(* storage key that expires.                                               *)

C16_StableReferenceWhenConfigured ==
    \A p \in Reqs :
        (IsUpload(p) /\ Returned(p, 200)) =>
            LET url == resp[p].body[1].download_url
            IN  IF cloudfront_download_domain # None
                THEN /\ url.kind # "presigned"
                     /\ url.ExpiresIn = 0
                     /\ BuiltFromKey(url, loc[p].s3_key)
                ELSE Made(p, "generate_presigned_url", "ok")
                        => /\ url.kind = "presigned"
                           /\ url.Key = loc[p].s3_key
                           /\ url.ExpiresIn > 0

----------------------------------------------------------------------------
(* C17: a download request whose identifier has a row and whose signing    *)
(* call raises ClientError is answered with status 500, "Failed to         *)
(* generate download URL" and no redirect or fallback reference; the step  *)
(* leaves the table as it was and the session of the lookup is closed.     *)

C17_DownloadIssuerError ==
    [][ \A p \in Reqs :
          ( /\ pc[p] = "idle"
            /\ pc'[p] = "done"
            /\ IsDownload(p)'
            /\ Made(p, "generate_presigned_url", "ClientError")' )
          => /\ select_first(store, req'[p].file_id) # None
             /\ resp'[p] = HTTPException(500, "Failed to generate download URL")
             /\ resp'[p].body = <<>>
             /\ store' = store
             /\ sess'[p].open = FALSE
             /\ sess'[p].txn = "closed" ]_vars

C17_Witness ==
    \E p \in Reqs :
        /\ IsDownload(p)
        /\ Made(p, "generate_presigned_url", "ClientError")
        /\ pc[p] = "done"
        /\ resp[p] = HTTPException(500, "Failed to generate download URL")
        /\ select_first(store, req[p].file_id) # None
        /\ ~sess[p].open

----------------------------------------------------------------------------
(* C19: once an upload request has been answered with 200, the table holds *)
(* a row for the file_id of the response: a metadata lookup of it answers  *)
(* 200, a download lookup finds the row, a fallback download_url is the    *)
(* download route of that file_id, and no metadata or download request for *)
(* that file_id that arrived after the response was answered 404.          *)

C19_DeliveredIdIsCommitted ==
    \A p \in Reqs :
        (IsUpload(p) /\ Returned(p, 200)) =>
            LET file_id == resp[p].body[1].file_id
                url == resp[p].body[1].download_url
            IN  /\ select_first(store, file_id) # None
                /\ metadata_response(store, file_id).status = 200
                /\ url.kind = "relative" => IsDownloadRoute(url.path, file_id)
                /\ \A q \in Reqs :
                      ( /\ IsMetadata(q) \/ IsDownload(q)
                        /\ pc[q] = "done"
                        /\ p \in seen[q]
                        /\ req[q].file_id = file_id )
                      => resp[q].status # 404

C19_Witness ==
    \E p, q \in Reqs :
        /\ IsUpload(p) /\ Returned(p, 200)
        /\ resp[p].body[1].download_url.kind = "relative"
        /\ IsDownload(q) /\ Returned(q, 307)
        /\ p \in seen[q]
        /\ req[q].file_id = resp[p].body[1].file_id

====
